---- MODULE Spec2Model ----
(***************************************************************************)
(* A model of fritzapi: the login handshake (api.rs get_token), the        *)
(* challenge/response computation (api.rs request_response), the command   *)
(* dispatcher (api.rs request) and the device layer (devices/mod.rs).      *)
(*                                                                         *)
(* Strings that the code inspects character by character (passwords,       *)
(* challenges, response tokens) are sequences of Unicode scalar values.    *)
(* Strings that are only compared, cloned or tested for a prefix are TLA+  *)
(* strings.  A 32-bit word is a pair <<hi, lo>> of 16-bit halves, so that  *)
(* wrapping 32-bit arithmetic never leaves the range of the checker's      *)
(* integers.                                                               *)
(***************************************************************************)
EXTENDS Integers, Sequences, FiniteSets, TLC

VARIABLES
    (* ---- request_response, applied to two passwords and one challenge *)
    rr_pc,        \* "input" | "done"
    rr_pw1,       \* first password
    rr_pw2,       \* second password
    rr_ch,        \* challenge
    rr_out1,      \* request_response(rr_pw1, rr_ch) once computed
    rr_out2,      \* request_response(rr_pw2, rr_ch) once computed
    (* ---- get_token *)
    gt_pc,        \* position inside get_token
    gt_host,      \* argument host
    gt_user,      \* argument user
    gt_password,  \* argument password
    gt_sent,      \* the requests get_token issued so far, in order
    gt_replies,   \* the session infos parsed from the gateway's responses, in order
    gt_result,    \* the value get_token returned
    (* ---- the device layer *)
    dv_token,     \* the Token every call is given
    dv_gw,        \* the gateway: its device records, in the order it lists them
    dv_listed,    \* the raw records the last successful list parsed
    dv_devices,   \* the Vec<AVMDevice> the caller holds from that list
    dv_last       \* the last call: operation, request, reply and results

rr_vars == <<rr_pc, rr_pw1, rr_pw2, rr_ch, rr_out1, rr_out2>>
gt_vars == <<gt_pc, gt_host, gt_user, gt_password, gt_sent, gt_replies, gt_result>>
dv_vars == <<dv_token, dv_gw, dv_listed, dv_devices, dv_last>>
vars == <<rr_vars, gt_vars, dv_vars>>

(***************************************************************************)
(* Bounds of the model.                                                    *)
(***************************************************************************)
MaxPwLen == 2
MaxDevices == 2

\* Option<T>
None == [some |-> FALSE]

Some(v) == [some |-> TRUE, val |-> v]

\* all sequences over S of length at most n
SeqsUpTo(S, n) == UNION {[1..k -> S] : k \in 0..n}

(***************************************************************************)
(* Text.  A string the code takes apart or puts together character by      *)
(* character is the sequence of its Unicode scalar values; Chars writes    *)
(* such a sequence as a literal of printable ASCII characters.             *)
(***************************************************************************)
\* U+0020 to U+005F and U+0061 to U+007E, in order
PrintableLow ==
    " !\"#$%&'()*+,-./0123456789:;<=>?@ABCDEFGHIJKLMNOPQRSTUVWXYZ[\\]^_"

PrintableHigh == "abcdefghijklmnopqrstuvwxyz{|}~"

CharAt(s, i) == SubSeq(s, i, i)

CodePointOf(c) ==
    IF \E k \in 32..95 : CharAt(PrintableLow, k - 31) = c
    THEN CHOOSE k \in 32..95 : CharAt(PrintableLow, k - 31) = c
    ELSE CHOOSE k \in 97..126 : CharAt(PrintableHigh, k - 96) = c

Chars(s) == [i \in 1..Len(s) |-> CodePointOf(CharAt(s, i))]

(***************************************************************************)
(* 16-bit and 32-bit arithmetic for MD5.                                   *)
(***************************************************************************)
\* 2^n for n in 0..16
Pow2(n) ==
    <<1, 2, 4, 8, 16, 32, 64, 128, 256, 512, 1024, 2048, 4096, 8192, 16384,
      32768, 65536>>[n + 1]

\* bitwise AND of two bytes, bit by bit
RECURSIVE AndBits(_, _)
AndBits(a, b) ==
    IF a = 0 \/ b = 0 THEN 0
    ELSE (a % 2) * (b % 2) + 2 * AndBits(a \div 2, b \div 2)

\* the same as a table, computed once
AndByte == [a \in 0..255 |-> [b \in 0..255 |-> AndBits(a, b)]]

And16(a, b) ==
    256 * AndByte[a \div 256][b \div 256] + AndByte[a % 256][b % 256]

Or16(a, b) == a + b - And16(a, b)

Xor16(a, b) == a + b - 2 * And16(a, b)

Not16(a) == 65535 - a

And32(x, y) == <<And16(x[1], y[1]), And16(x[2], y[2])>>

Or32(x, y) == <<Or16(x[1], y[1]), Or16(x[2], y[2])>>

Xor32(x, y) == <<Xor16(x[1], y[1]), Xor16(x[2], y[2])>>

Not32(x) == <<Not16(x[1]), Not16(x[2])>>

\* u32::wrapping_add
Add32(x, y) ==
    LET lo == x[2] + y[2]
        hi == x[1] + y[1] + (lo \div 65536)
    IN  <<hi % 65536, lo % 65536>>

\* u32::rotate_left(s), 0 < s < 32
RotL32(x, s) ==
    LET hi == IF s >= 16 THEN x[2] ELSE x[1]
        lo == IF s >= 16 THEN x[1] ELSE x[2]
        r  == s % 16
        up == Pow2(r)
        dn == Pow2(16 - r)
    IN  IF r = 0 THEN <<hi, lo>>
        ELSE <<(hi % dn) * up + (lo \div dn), (lo % dn) * up + (hi \div dn)>>

(***************************************************************************)
(* MD5 (RFC 1321), as md5::compute computes it over a byte sequence.       *)
(***************************************************************************)
MD5Shift ==
    <<7, 12, 17, 22, 7, 12, 17, 22, 7, 12, 17, 22, 7, 12, 17, 22,
      5, 9, 14, 20, 5, 9, 14, 20, 5, 9, 14, 20, 5, 9, 14, 20,
      4, 11, 16, 23, 4, 11, 16, 23, 4, 11, 16, 23, 4, 11, 16, 23,
      6, 10, 15, 21, 6, 10, 15, 21, 6, 10, 15, 21, 6, 10, 15, 21>>

MD5K ==
    << <<55146, 42104>>, <<59591, 46934>>, <<9248, 28891>>, <<49597, 52974>>,
       <<62844, 4015>>, <<18311, 50730>>, <<43056, 17939>>, <<64838, 38145>>,
       <<27008, 39128>>, <<35652, 63407>>, <<65535, 23473>>, <<35164, 55230>>,
       <<27536, 4386>>, <<64920, 29075>>, <<42617, 17294>>, <<18868, 2081>>,
       <<63006, 9570>>, <<49216, 45888>>, <<9822, 23121>>, <<59830, 51114>>,
       <<54831, 4189>>, <<580, 5203>>, <<55457, 59009>>, <<59347, 64456>>,
       <<8673, 52710>>, <<49975, 2006>>, <<62677, 3463>>, <<17754, 5357>>,
       <<43491, 59653>>, <<64751, 41976>>, <<26479, 729>>, <<36138, 19594>>,
       <<65530, 14658>>, <<34673, 63105>>, <<28061, 24866>>, <<64997, 14348>>,
       <<42174, 59972>>, <<19422, 53161>>, <<63163, 19296>>, <<48831, 48240>>,
       <<10395, 32454>>, <<60065, 10234>>, <<54511, 12421>>, <<1160, 7429>>,
       <<55764, 53305>>, <<59099, 39397>>, <<8098, 31992>>, <<50348, 22117>>,
       <<62505, 8772>>, <<17194, 65431>>, <<43924, 9127>>, <<64659, 41017>>,
       <<25947, 22979>>, <<36620, 52370>>, <<65519, 62589>>, <<34180, 24017>>,
       <<28584, 32335>>, <<65068, 59104>>, <<41729, 17172>>, <<19976, 4513>>,
       <<63315, 32386>>, <<48442, 62005>>, <<10967, 53947>>, <<60294, 54161>> >>

MD5InitState ==
    << <<26437, 8961>>, <<61389, 43913>>, <<39098, 56574>>, <<4146, 21622>> >>

\* the k low bytes of n, least significant first
RECURSIVE LeBytes(_, _)
LeBytes(n, k) == IF k = 0 THEN <<>> ELSE <<n % 256>> \o LeBytes(n \div 256, k - 1)

\* the message followed by 0x80, zeros up to 56 mod 64, and the bit length
\* as eight little-endian bytes
MD5Pad(bytes) ==
    LET n     == Len(bytes)
        zeros == (119 - (n % 64)) % 64
    IN  bytes \o <<128>> \o [i \in 1..zeros |-> 0] \o LeBytes(8 * n, 8)

\* the j-th (0-based) little-endian 32-bit word of a 64-byte block
MD5Word(block, j) ==
    <<block[4 * j + 4] * 256 + block[4 * j + 3],
      block[4 * j + 2] * 256 + block[4 * j + 1]>>

\* the round function and message index of step i (0-based)
MD5F(i, b, c, d) ==
    IF i < 16 THEN Or32(And32(b, c), And32(Not32(b), d))
    ELSE IF i < 32 THEN Or32(And32(d, b), And32(Not32(d), c))
    ELSE IF i < 48 THEN Xor32(b, Xor32(c, d))
    ELSE Xor32(c, Or32(b, Not32(d)))

MD5G(i) ==
    IF i < 16 THEN i
    ELSE IF i < 32 THEN (5 * i + 1) % 16
    ELSE IF i < 48 THEN (3 * i + 5) % 16
    ELSE (7 * i) % 16

\* the 64 steps over one block; st = <<i, a, b, c, d>> is the loop counter
\* with the four working words
RECURSIVE MD5Steps(_, _)
MD5Steps(st, block) ==
    IF st[1] = 64 THEN <<st[2], st[3], st[4], st[5]>>
    ELSE
        LET i == st[1]
            a == st[2]
            b == st[3]
            c == st[4]
            d == st[5]
            f == Add32(Add32(MD5F(i, b, c, d), a),
                       Add32(MD5K[i + 1], MD5Word(block, MD5G(i))))
        IN  MD5Steps(<<i + 1, d, Add32(b, RotL32(f, MD5Shift[i + 1])), b, c>>,
                     block)

RECURSIVE MD5Blocks(_, _)
MD5Blocks(st, padded) ==
    IF Len(padded) = 0 THEN st
    ELSE
        LET r == MD5Steps(<<0, st[1], st[2], st[3], st[4]>>, SubSeq(padded, 1, 64))
        IN  MD5Blocks(<<Add32(st[1], r[1]), Add32(st[2], r[2]),
                        Add32(st[3], r[3]), Add32(st[4], r[4])>>,
                      SubSeq(padded, 65, Len(padded)))

\* the 16 digest bytes: the four state words, each little-endian
MD5Compute(bytes) ==
    LET st == MD5Blocks(MD5InitState, MD5Pad(bytes))
    IN  [k \in 1..16 |->
            LET w == st[((k - 1) \div 4) + 1]
                p == (k - 1) % 4
            IN  IF p = 0 THEN w[2] % 256
                ELSE IF p = 1 THEN w[2] \div 256
                ELSE IF p = 2 THEN w[1] % 256
                ELSE w[1] \div 256]

(***************************************************************************)
(* request_response (api.rs 17-29).                                        *)
(***************************************************************************)
\* a pattern that spares U+0080-U+00FF
CleanPassword_Latin1(password) ==
    [i \in 1..Len(password) |-> IF password[i] > 255 THEN 46 ELSE password[i]]

\* RE.replace_all(password, "."): each scalar value outside 0x00-0x7F
\* becomes one '.'
CleanPassword(password) ==
    [i \in 1..Len(password) |-> IF password[i] > 127 THEN 46 ELSE password[i]]

\* str::encode_utf16: one unit below 0x10000, a surrogate pair above
RECURSIVE EncodeUtf16(_)
EncodeUtf16(s) ==
    IF Len(s) = 0 THEN <<>>
    ELSE
        LET c == s[1]
        IN  (IF c < 65536 THEN <<c>>
             ELSE <<55296 + ((c - 65536) \div 1024), 56320 + ((c - 65536) % 1024)>>)
            \o EncodeUtf16(Tail(s))

\* flat_map(|utf16| utf16.to_le_bytes())
RECURSIVE ToLeBytes(_)
ToLeBytes(units) ==
    IF Len(units) = 0 THEN <<>>
    ELSE <<units[1] % 256, units[1] \div 256>> \o ToLeBytes(Tail(units))

\* one lowercase hexadecimal digit as a character
HexDigit(n) == IF n < 10 THEN 48 + n ELSE 87 + n

\* {:032x} of an md5 digest: two lowercase hex digits per byte
HexLower(digest) ==
    [k \in 1..(2 * Len(digest)) |->
        LET byte == digest[(k + 1) \div 2]
        IN  IF k % 2 = 1 THEN HexDigit(byte \div 16) ELSE HexDigit(byte % 16)]

request_response(password, challenge) ==
    LET clean_password == CleanPassword(password)
        hash_input     == challenge \o <<45>> \o clean_password
        bytes          == ToLeBytes(EncodeUtf16(hash_input))
        digest         == MD5Compute(bytes)
    IN  challenge \o <<45>> \o HexLower(digest)

(***************************************************************************)
(* Inputs of request_response: every password over '.', 'a' and U+00C4 up *)
(* to MaxPwLen characters, the password of the unit test (m, U+00FC, h,   *)
(* e) and two passwords with a character outside the basic plane          *)
(* (U+1F600); the challenges "x" and "foo".                                *)
(***************************************************************************)
PwChars == {46, 97, 196}

TestPassword == <<109, 252, 104, 101>>

ExtraPasswords == {TestPassword, <<128512>>, <<97, 128512>>}

Passwords == SeqsUpTo(PwChars, MaxPwLen) \cup ExtraPasswords

Challenges == {<<120>>, <<102, 111, 111>>}

InitRR ==
    /\ rr_pc = "input"
    /\ rr_pw1 \in Passwords
    /\ rr_pw2 \in Passwords
    /\ rr_ch \in Challenges
    /\ rr_out1 = <<>>
    /\ rr_out2 = <<>>

\* the solver applied to both passwords under the same challenge
Solve ==
    /\ rr_pc = "input"
    /\ rr_out1' = request_response(rr_pw1, rr_ch)
    /\ rr_out2' = request_response(rr_pw2, rr_ch)
    /\ rr_pc' = "done"
    /\ UNCHANGED <<rr_pw1, rr_pw2, rr_ch, gt_vars, dv_vars>>

(***************************************************************************)
(* get_token (api.rs 40-73).                                               *)
(*                                                                         *)
(* A reply of the gateway is either a transport failure or an HTTP         *)
(* response with a status and a body.  A body is unreadable (text() fails),*)
(* malformed (parse_session_info fails) or a session info document.        *)
(***************************************************************************)
DEFAULT_SID == "0000000000000000"

Transport == [kind |-> "transport_error"]

Unreadable == [kind |-> "unreadable"]

Malformed == [kind |-> "malformed"]

Statuses == {200, 302, 403, 500}

Sids == {DEFAULT_SID, "9c3a41f07b2d6e58", "0"}

SessionInfoBodies ==
    [kind : {"session_info"}, sid : Sids, challenge : Challenges]

LoginReplies ==
    {Transport}
        \cup [kind : {"http"}, status : Statuses,
              body : {Unreadable, Malformed} \cup SessionInfoBodies]

Hosts == {Chars("fritz.box"), Chars("192.168.178.1")}

Users == {Chars("admin"), Chars("smart home"), Chars("a&b")}

LoginPasswords == {TestPassword, <<97>>}

Ok(v) == [ok |-> TRUE, val |-> v]

Err(e) == [ok |-> FALSE, err |-> e]

\* reqwest Response::error_for_status: an error for 4xx and 5xx
error_for_status(reply) ==
    IF reply.status >= 400 /\ reply.status <= 599
    THEN Err("TransportError") ELSE Ok(reply)

\* GET(&url)?.error_for_status()? followed by .text()?
GetText(reply) ==
    IF reply.kind = "transport_error" THEN Err("TransportError")
    ELSE IF ~error_for_status(reply).ok THEN Err("TransportError")
    ELSE IF reply.body.kind = "unreadable" THEN Err("TransportError")
    ELSE Ok(reply.body)

\* xml::parse_session_info
parse_session_info(body) ==
    IF body.kind = "session_info"
    THEN Ok([sid |-> body.sid, challenge |-> body.challenge])
    ELSE Err("ParseError")

\* the session info get_token reads out of a reply, or the error it returns
SessionInfoOf(reply) ==
    LET xml == GetText(reply)
    IN  IF ~xml.ok THEN xml ELSE parse_session_info(xml.val)

Token(sid, host) == [sid |-> sid, host |-> host]

\* the test of line 49 inverted
HasSession_Inverted(sid) == DEFAULT_SID = sid

\* line 49: the first response already carries a session
HasSession(sid) == DEFAULT_SID # sid

\* the test of line 63 left out
StillDefault_Unchecked(sid) == FALSE

\* the test of line 63 against the empty string
StillDefault_Empty(sid) == "" = sid

\* line 63: the second response still carries no session
StillDefault(sid) == DEFAULT_SID = sid

UrlScheme == Chars("http://")

LoginPath == Chars("/login_sid.lua")

UsernameParam == Chars("?username=")

ResponseParam == Chars("&response=")

\* line 41: format!("http://{}/login_sid.lua", host), the text handed to GET
LoginUrl(host) == UrlScheme \o host \o LoginPath

\* lines 56-59: format!("http://{}/login_sid.lua?username={}&response={}",
\* host, user, response); the arguments are interpolated as they are
LoginUrlWithResponse(host, user, response) ==
    UrlScheme \o host \o LoginPath
        \o UsernameParam \o user \o ResponseParam \o response

InitGT ==
    /\ gt_pc = "idle"
    /\ gt_host = <<>>
    /\ gt_user = <<>>
    /\ gt_password = <<>>
    /\ gt_sent = <<>>
    /\ gt_replies = <<>>
    /\ gt_result = None

\* lines 40-42: get_token is entered and issues the unauthenticated request
GetTokenCall(host, user, password) ==
    /\ gt_pc = "idle"
    /\ gt_host' = host
    /\ gt_user' = user
    /\ gt_password' = password
    /\ gt_sent' = <<LoginUrl(host)>>
    /\ gt_pc' = "first_request"
    /\ UNCHANGED <<gt_replies, gt_result, rr_vars, dv_vars>>

\* lines 42-60: the first reply arrives; get_token fails, returns the
\* session the gateway already has, or sends user name and response
GetTokenFirstReply(reply) ==
    /\ gt_pc = "first_request"
    /\ gt_replies' = Append(gt_replies, reply)
    /\ LET info == SessionInfoOf(reply)
       IN  IF ~info.ok
           THEN /\ gt_result' = Some(info)
                /\ gt_pc' = "returned"
                /\ UNCHANGED gt_sent
           ELSE IF HasSession(info.val.sid)
           THEN /\ gt_result' = Some(Ok(Token(info.val.sid, gt_host)))
                /\ gt_pc' = "returned"
                /\ UNCHANGED gt_sent
           ELSE /\ gt_sent' = Append(gt_sent,
                        LoginUrlWithResponse(gt_host, gt_user,
                            request_response(gt_password, info.val.challenge)))
                /\ gt_pc' = "second_request"
                /\ UNCHANGED gt_result
    /\ UNCHANGED <<gt_host, gt_user, gt_password, rr_vars, dv_vars>>

\* lines 60-72: the second reply arrives; get_token fails or returns the
\* new session
GetTokenSecondReply(reply) ==
    /\ gt_pc = "second_request"
    /\ gt_replies' = Append(gt_replies, reply)
    /\ LET info == SessionInfoOf(reply)
       IN  gt_result' =
               IF ~info.ok THEN Some(info)
               ELSE IF StillDefault(info.val.sid) THEN Some(Err("LoginError"))
               ELSE Some(Ok(Token(info.val.sid, gt_host)))
    /\ gt_pc' = "returned"
    /\ UNCHANGED <<gt_host, gt_user, gt_password, gt_sent, rr_vars, dv_vars>>

(***************************************************************************)
(* The command dispatcher, request (api.rs 75-132).                        *)
(***************************************************************************)
Commands ==
    {"GetDeviceListInfos", "GetBasicDeviceStats", "SetSwitchOff", "SetSwitchOn",
     "SetSwitchToggle"}

\* lines 90-100: the protocol keyword of a command
CommandKeyword(cmd) ==
    CASE cmd = "GetDeviceListInfos" -> "getdevicelistinfos"
      [] cmd = "GetBasicDeviceStats" -> "getbasicdevicestats"
      [] cmd = "SetSwitchOff" -> "setswitchoff"
      [] cmd = "SetSwitchOn" -> "setswitchon"
      [] cmd = "SetSwitchToggle" -> "setswitchtoggle"

CommandPath == Chars("/webservices/homeautoswitch.lua")

\* lines 101-107: the request target, the text of format! with the query
\* pairs added to it by the client; ain is an Option
CommandUrl(cmd, token, ain) ==
    [url |-> UrlScheme \o token.host \o CommandPath,
     query |-> << <<"switchcmd", CommandKeyword(cmd)>>, <<"sid", token.sid>> >>
                  \o (IF ain.some THEN << <<"ain", ain.val>> >> ELSE <<>>)]

\* lines 108-117: client.send()? fails on a transport failure, the status is
\* only logged, response.text()? fails on an unreadable body
request(cmd, token, ain, reply) ==
    IF reply.kind = "transport_error" THEN Err("TransportError")
    ELSE IF reply.body.kind = "unreadable" THEN Err("TransportError")
    ELSE Ok(reply.body)

\* xml::parse_device_infos
parse_device_infos(body) ==
    IF body.kind = "device_list" THEN Ok(body.devices) ELSE Err("ParseError")

\* xml::parse_device_stats
parse_device_stats(body) ==
    IF body.kind = "device_stats" THEN Ok(body.stats) ELSE Err("ParseError")

\* lines 123-126
device_infos(token, reply) ==
    LET xml == request("GetDeviceListInfos", token, None, reply)
    IN  IF ~xml.ok THEN xml ELSE parse_device_infos(xml.val)

\* lines 129-132
api_fetch_device_stats(ain, token, reply) ==
    LET xml == request("GetBasicDeviceStats", token, Some(ain), reply)
    IN  IF ~xml.ok THEN xml ELSE parse_device_stats(xml.val)

(***************************************************************************)
(* AVMDevice (devices/mod.rs).                                             *)
(*                                                                         *)
(* The f32 fields of a plug are computed in the f32 section below.         *)
(***************************************************************************)
PlugPrefix == "FRITZ!DECT 2"

\* str::starts_with
starts_with(s, prefix) ==
    /\ Len(s) >= Len(prefix)
    /\ SubSeq(s, 1, Len(prefix)) = prefix

(***************************************************************************)
(* f32 arithmetic (devices/mod.rs 72-75).                                  *)
(* An f32 is NaN, an infinity, or neg, m, e with the value m * 2^e: a zero *)
(* has m = 0 and e = -149, a subnormal 0 < m < 2^23 and e = -149, a normal *)
(* 2^23 <= m < 2^24 and -149 <= e <= 104.  Parsing, the conversion of an   *)
(* integer and the product round to the nearest f32, ties to the even      *)
(* significand; the exact values are held as naturals of any size, a       *)
(* sequence of base-10000 limbs with the least significant limb first.     *)
(***************************************************************************)
F32NaN == [class |-> "nan"]

F32Inf(neg) == [class |-> "inf", neg |-> neg]

F32Fin(neg, m, e) == [class |-> "finite", neg |-> neg, m |-> m, e |-> e]

F32Zero(neg) == F32Fin(neg, 0, -149)

RECURSIVE BigTrim(_)
BigTrim(a) ==
    IF Len(a) > 0 /\ a[Len(a)] = 0 THEN BigTrim(SubSeq(a, 1, Len(a) - 1)) ELSE a

RECURSIVE BigOfInt(_)
BigOfInt(n) ==
    IF n = 0 THEN <<>> ELSE <<n % 10000>> \o BigOfInt(n \div 10000)

RECURSIVE BigMulFrom(_, _, _, _)
BigMulFrom(a, c, i, carry) ==
    IF i > Len(a) THEN BigOfInt(carry)
    ELSE LET t == a[i] * c + carry
         IN  <<t % 10000>> \o BigMulFrom(a, c, i + 1, t \div 10000)

\* a * c for 0 <= c <= 10000
BigMulSmall(a, c) == BigTrim(BigMulFrom(a, c, 1, 0))

BigLimb(a, i) == IF i <= Len(a) THEN a[i] ELSE 0

RECURSIVE BigAddFrom(_, _, _, _)
BigAddFrom(a, b, i, carry) ==
    IF i > Len(a) /\ i > Len(b) THEN BigOfInt(carry)
    ELSE LET t == BigLimb(a, i) + BigLimb(b, i) + carry
         IN  <<t % 10000>> \o BigAddFrom(a, b, i + 1, t \div 10000)

BigAdd(a, b) == BigAddFrom(a, b, 1, 0)

RECURSIVE BigSubFrom(_, _, _, _)
BigSubFrom(a, b, i, borrow) ==
    IF i > Len(a) THEN <<>>
    ELSE LET t == a[i] - BigLimb(b, i) - borrow
         IN  IF t < 0 THEN <<t + 10000>> \o BigSubFrom(a, b, i + 1, 1)
             ELSE <<t>> \o BigSubFrom(a, b, i + 1, 0)

\* a - b for a >= b
BigSub(a, b) == BigTrim(BigSubFrom(a, b, 1, 0))

RECURSIVE BigCmpFrom(_, _, _)
BigCmpFrom(a, b, i) ==
    IF i = 0 THEN 0
    ELSE IF a[i] < b[i] THEN -1
    ELSE IF a[i] > b[i] THEN 1
    ELSE BigCmpFrom(a, b, i - 1)

\* -1, 0, 1 as a < b, a = b, a > b
BigCmp(a, b) ==
    IF Len(a) < Len(b) THEN -1
    ELSE IF Len(a) > Len(b) THEN 1
    ELSE BigCmpFrom(a, b, Len(a))

RECURSIVE BigMul(_, _)
BigMul(a, b) ==
    IF Len(b) = 0 THEN <<>>
    ELSE LET rest == BigMul(a, Tail(b))
         IN  BigAdd(BigMulSmall(a, b[1]),
                    IF Len(rest) = 0 THEN <<>> ELSE <<0>> \o rest)

\* a * 10^k; a as it is for k <= 0
BigScale10(a, k) ==
    IF k <= 0 \/ Len(a) = 0 THEN a
    ELSE [i \in 1..(k \div 4) |-> 0]
             \o BigMulSmall(a, <<1, 10, 100, 1000>>[(k % 4) + 1])

\* st = <<n, d, p>> with n / d * 2^p the value: scale until d <= n < 2 d,
\* by 2^12 while that is not too far and by 2 then, giving up beyond the
\* exponents of an f32
RECURSIVE F32Normalize(_)
F32Normalize(st) ==
    IF BigCmp(st[1], st[2]) < 0
    THEN (IF st[3] < -151 THEN st
          ELSE IF BigCmp(BigMulSmall(st[1], 4096), st[2]) < 0
          THEN F32Normalize(<<BigMulSmall(st[1], 4096), st[2], st[3] - 12>>)
          ELSE F32Normalize(<<BigMulSmall(st[1], 2), st[2], st[3] - 1>>))
    ELSE IF BigCmp(st[1], BigMulSmall(st[2], 2)) >= 0
    THEN (IF st[3] > 128 THEN st
          ELSE IF BigCmp(st[1], BigMulSmall(st[2], 8192)) >= 0
          THEN F32Normalize(<<st[1], BigMulSmall(st[2], 4096), st[3] + 12>>)
          ELSE F32Normalize(<<st[1], BigMulSmall(st[2], 2), st[3] + 1>>))
    ELSE st

\* one more bit of the quotient: k bits to go after m, r2 twice the remainder
F32Bit(k, m, r2, d) ==
    IF BigCmp(r2, d) >= 0 THEN <<k - 1, 2 * m + 1, BigSub(r2, d)>>
    ELSE <<k - 1, 2 * m, r2>>

\* st = <<k, m, r>>: k more bits of the quotient after m, remainder r of d
RECURSIVE F32Bits(_, _)
F32Bits(st, d) ==
    IF st[1] = 0 THEN st
    ELSE F32Bits(F32Bit(st[1], st[2], BigMulSmall(st[3], 2), d), d)

\* the significand bits of a value in [2^p, 2^(p+1)): 24, fewer below 2^-126
F32Width(p) == IF p + 150 < 24 THEN p + 150 ELSE 24

\* a significand that reached 2^24 becomes 2^23 with the next exponent
F32Pack(neg, m, e) ==
    IF m = 16777216
    THEN (IF e + 1 > 104 THEN F32Inf(neg) ELSE F32Fin(neg, 8388608, e + 1))
    ELSE F32Fin(neg, m, e)

\* round to nearest, ties to even: half compares the remainder with d / 2
F32RoundUp(m, half) ==
    IF half > 0 \/ (half = 0 /\ m % 2 = 1) THEN m + 1 ELSE m

\* q = <<0, m, r>>, the quotient m with remainder r of d
F32Quotient(neg, q, d, e) ==
    F32Pack(neg, F32RoundUp(q[2], BigCmp(BigMulSmall(q[3], 2), d)), e)

\* nz = <<n, d, p>> as F32Normalize leaves it
F32Normalized(neg, nz, nb) ==
    IF nz[3] > 127 THEN F32Inf(neg)
    ELSE IF nb < 0 THEN F32Zero(neg)
    ELSE IF nb = 0
    THEN F32Fin(neg, IF BigCmp(nz[1], nz[2]) = 0 THEN 0 ELSE 1, -149)
    ELSE F32Quotient(neg,
                     F32Bits(<<nb - 1, 1, BigSub(nz[1], nz[2])>>, nz[2]),
                     nz[2], nz[3] - (nb - 1))

F32OfNormalized(neg, nz) == F32Normalized(neg, nz, F32Width(nz[3]))

\* the f32 nearest to n / d * 2^p0 (n, d > 0), ties to even
RoundF32(neg, n, d, p0) == F32OfNormalized(neg, F32Normalize(<<n, d, p0>>))

\* u32 as f32
U32AsF32(n) ==
    IF n = 0 THEN F32Zero(FALSE) ELSE RoundF32(FALSE, BigOfInt(n), <<1>>, 0)

\* the f32 product a * b
MulF32(a, b) ==
    IF a.class = "nan" \/ b.class = "nan" THEN F32NaN
    ELSE IF a.class = "inf" \/ b.class = "inf"
    THEN (IF (a.class = "finite" /\ a.m = 0) \/ (b.class = "finite" /\ b.m = 0)
          THEN F32NaN ELSE F32Inf(a.neg # b.neg))
    ELSE IF a.m = 0 \/ b.m = 0 THEN F32Zero(a.neg # b.neg)
    ELSE RoundF32(a.neg # b.neg, BigMul(BigOfInt(a.m), BigOfInt(b.m)), <<1>>,
                  a.e + b.e)

DigitChars == {"0", "1", "2", "3", "4", "5", "6", "7", "8", "9"}

DigitValue(c) ==
    CASE c = "0" -> 0 [] c = "1" -> 1 [] c = "2" -> 2 [] c = "3" -> 3
      [] c = "4" -> 4 [] c = "5" -> 5 [] c = "6" -> 6 [] c = "7" -> 7
      [] c = "8" -> 8 [] c = "9" -> 9

\* the index after the run of decimal digits of s that starts at i
RECURSIVE DigitsEnd(_, _)
DigitsEnd(s, i) ==
    IF i <= Len(s) /\ CharAt(s, i) \in DigitChars THEN DigitsEnd(s, i + 1) ELSE i

\* the value of the decimal digits of s from index i to index j, j - i < 4
RECURSIVE DigitsValue(_, _, _)
DigitsValue(s, i, j) ==
    IF j < i THEN 0
    ELSE 10 * DigitsValue(s, i, j - 1) + DigitValue(CharAt(s, j))

\* the natural a digit string denotes: a limb for every four digits
DecimalValue(s) ==
    BigTrim([k \in 1..((Len(s) + 3) \div 4) |->
                DigitsValue(s,
                            IF Len(s) - 4 * k + 1 < 1 THEN 1
                            ELSE Len(s) - 4 * k + 1,
                            Len(s) - 4 * (k - 1))])

\* the exponent a digit string denotes, saturated far beyond the f32 range
RECURSIVE ExponentValue(_)
ExponentValue(s) ==
    IF Len(s) = 0 THEN 0
    ELSE LET v == 10 * ExponentValue(SubSeq(s, 1, Len(s) - 1))
                      + DigitValue(CharAt(s, Len(s)))
         IN  IF v > 100000 THEN 100000 ELSE v

\* the number of decimal digits of a natural
BigDigits(a) ==
    IF Len(a) = 0 THEN 0
    ELSE 4 * (Len(a) - 1)
           + (IF a[Len(a)] >= 1000 THEN 4 ELSE IF a[Len(a)] >= 100 THEN 3
              ELSE IF a[Len(a)] >= 10 THEN 2 ELSE 1)

LowerAscii(c) ==
    CASE c = "I" -> "i" [] c = "N" -> "n" [] c = "F" -> "f" [] c = "T" -> "t"
      [] c = "Y" -> "y" [] c = "A" -> "a" [] c = "E" -> "e" [] OTHER -> c

\* eq_ignore_ascii_case against a lower-case word
EqIgnoreCase(s, word) ==
    /\ Len(s) = Len(word)
    /\ \A i \in 1..Len(s) : LowerAscii(CharAt(s, i)) = CharAt(word, i)

\* the f32 nearest to d * 10^k
DecimalBigToF32(neg, d, k) ==
    IF BigDigits(d) = 0 THEN F32Zero(neg)
    ELSE IF BigDigits(d) + k > 40 THEN F32Inf(neg)
    ELSE IF BigDigits(d) + k < -46 THEN F32Zero(neg)
    ELSE RoundF32(neg, BigScale10(d, k), BigScale10(<<1>>, 0 - k), 0)

\* the f32 nearest to digits * 10^k
DecimalToF32(neg, digits, k) == DecimalBigToF32(neg, DecimalValue(digits), k)

ParseFloatError == [ok |-> FALSE, err |-> "ParseFloatError"]

\* the digits of an exponent from index i to the end of r
ExponentDigits(r, i, eneg) ==
    IF i > Len(r) \/ DigitsEnd(r, i) <= Len(r) THEN ParseFloatError
    ELSE [ok |-> TRUE,
          val |-> IF eneg THEN 0 - ExponentValue(SubSeq(r, i, Len(r)))
                  ELSE ExponentValue(SubSeq(r, i, Len(r)))]

\* the exponent after 'e': an optional sign and digits
SignedExponent(r, i) ==
    IF i <= Len(r) /\ CharAt(r, i) \in {"+", "-"}
    THEN ExponentDigits(r, i + 1, CharAt(r, i) = "-")
    ELSE ExponentDigits(r, i, FALSE)

\* the exponent part of r from index i: nothing, or 'e' or 'E' and more
ExponentOf(r, i) ==
    IF i > Len(r) THEN [ok |-> TRUE, val |-> 0]
    ELSE IF CharAt(r, i) \in {"e", "E"} THEN SignedExponent(r, i + 1)
    ELSE ParseFloatError

\* digits: integer and fraction digits together, fraclen of them fraction
NumberOf(neg, digits, fraclen, exp) ==
    IF Len(digits) = 0 \/ ~exp.ok THEN ParseFloatError
    ELSE [ok |-> TRUE, val |-> DecimalToF32(neg, digits, exp.val - fraclen)]

\* i1, i2: the ends of the integer digits and of the fraction digits
FractionOf(r, neg, i1, i2) ==
    NumberOf(neg, SubSeq(r, 1, i1 - 1) \o SubSeq(r, i1 + 1, i2 - 1),
             i2 - (i1 + 1), ExponentOf(r, i2))

\* i1: the end of the integer digits
IntegerOf(r, neg, i1) ==
    IF i1 <= Len(r) /\ CharAt(r, i1) = "."
    THEN FractionOf(r, neg, i1, DigitsEnd(r, i1 + 1))
    ELSE NumberOf(neg, SubSeq(r, 1, i1 - 1), 0, ExponentOf(r, i1))

\* r: the string after its sign
UnsignedOf(r, neg) ==
    IF EqIgnoreCase(r, "inf") \/ EqIgnoreCase(r, "infinity")
    THEN [ok |-> TRUE, val |-> F32Inf(neg)]
    ELSE IF EqIgnoreCase(r, "nan") THEN [ok |-> TRUE, val |-> F32NaN]
    ELSE IntegerOf(r, neg, DigitsEnd(r, 1))

\* <f32 as FromStr>::from_str: Ok(value) or Err
ParseFloat(s) ==
    IF Len(s) > 0 /\ CharAt(s, 1) \in {"+", "-"}
    THEN UnsignedOf(SubSeq(s, 2, Len(s)), CharAt(s, 1) = "-")
    ELSE UnsignedOf(s, FALSE)

\* s.parse::<f32>().unwrap_or_default()
ParseF32(s) ==
    IF ParseFloat(s).ok THEN ParseFloat(s).val ELSE F32Zero(FALSE)

\* the literals 0.001 and 0.1 of lines 72-75
F32Milli == ParseF32("0.001")

F32Tenth == ParseF32("0.1")

\* lines 72-73: *voltage as f32 * 0.001, *power as f32 * 0.001
MilliF32(n) == MulF32(U32AsF32(n), F32Milli)

\* line 75: celsius.parse::<f32>().unwrap_or_default() * 0.1
TenthsF32(s) == MulF32(ParseF32(s), F32Tenth)

\* the meter readings and temperature strings of the modelled gateway, with
\* their f32 values computed once
Readings == {12340, 230512}

Temperatures == {"225", "210", "-15", ""}

MilliKnown == [n \in Readings |-> MilliF32(n)]

TenthsKnown == [s \in Temperatures |-> TenthsF32(s)]

MilliToF32(n) == IF n \in Readings THEN MilliKnown[n] ELSE MilliF32(n)

CelsiusToF32(s) == IF s \in Temperatures THEN TenthsKnown[s] ELSE TenthsF32(s)

\* the match arm with the switch pattern in place and the on-state taken
\* from the switch
ClassifyDevice_FromSwitch(dev) ==
    IF /\ dev.switch.some
       /\ dev.powermeter.some
       /\ dev.temperature.some
       /\ dev.alert.some
       /\ starts_with(dev.productname, PlugPrefix)
    THEN [variant |-> "FritzDect2XX",
          dev |-> [identifier |-> dev.identifier,
                   productname |-> dev.productname,
                   name |-> dev.name,
                   on |-> dev.switch.val.state,
                   voltage |-> MilliToF32(dev.powermeter.val.voltage),
                   watts |-> MilliToF32(dev.powermeter.val.power),
                   energy_in_watt_h |-> dev.powermeter.val.energy,
                   celsius |-> CelsiusToF32(dev.temperature.val.celsius)]]
    ELSE [variant |-> "Other", dev |-> dev]

\* lines 45-80: the closure AVMDevice::list maps over the raw records
ClassifyDevice(dev) ==
    IF /\ dev.powermeter.some
       /\ dev.temperature.some
       /\ dev.alert.some
       /\ starts_with(dev.productname, PlugPrefix)
    THEN [variant |-> "FritzDect2XX",
          dev |-> [identifier |-> dev.identifier,
                   productname |-> dev.productname,
                   name |-> dev.name,
                   on |-> dev.alert.val.state,
                   voltage |-> MilliToF32(dev.powermeter.val.voltage),
                   watts |-> MilliToF32(dev.powermeter.val.power),
                   energy_in_watt_h |-> dev.powermeter.val.energy,
                   celsius |-> CelsiusToF32(dev.temperature.val.celsius)]]
    ELSE [variant |-> "Other", dev |-> dev]

IsPlug(d) == d.variant = "FritzDect2XX"

\* a filter_map that keeps the plugs only
ClassifyAll_PlugsOnly(devices) ==
    SelectSeq([i \in 1..Len(devices) |-> ClassifyDevice(devices[i])], IsPlug)

\* lines 43-82: devices.into_iter().map(..).collect()
ClassifyAll(devices) == [i \in 1..Len(devices) |-> ClassifyDevice(devices[i])]

\* lines 37-84
list(token, reply) ==
    LET devices == device_infos(token, reply)
    IN  IF ~devices.ok THEN devices ELSE Ok(ClassifyAll(devices.val))

\* lines 86-91
id(self) == self.dev.identifier

\* lines 93-98
name(self) == self.dev.name

\* lines 100-105
productname(self) == self.dev.productname

\* lines 107-113
is_on(self) == IF self.variant = "FritzDect2XX" THEN self.dev.on ELSE FALSE

\* lines 115-123
is_alert(self) ==
    IF self.variant = "FritzDect2XX" THEN FALSE
    ELSE self.dev.alert.some /\ self.dev.alert.val.state

\* lines 125-139
last_alert_change_epoch(self) ==
    IF self.variant = "FritzDect2XX" THEN 0
    ELSE IF self.dev.alert.some THEN self.dev.alert.val.lastalertchgtimestamp
    ELSE 0

\* lines 141-147
state(self) ==
    IF self.variant = "FritzDect2XX"
    THEN (IF self.dev.on THEN "on" ELSE "off")
    ELSE ""

\* lines 149-151
fetch_device_stats(self, token, reply) ==
    api_fetch_device_stats(id(self), token, reply)

\* a turn_on that records the new on-state in a plug when the call succeeds
turn_on_Updating(self, token, reply) ==
    LET r == request("SetSwitchOn", token, Some(id(self)), reply)
    IN  [self |-> IF r.ok /\ self.variant = "FritzDect2XX"
                  THEN [self EXCEPT !.dev.on = TRUE] ELSE self,
         result |-> IF r.ok THEN Ok("unit") ELSE r]

\* lines 153-156; self is &mut: the value is the device after the call with
\* the call's result
turn_on(self, token, reply) ==
    LET r == request("SetSwitchOn", token, Some(id(self)), reply)
    IN  [self |-> self, result |-> IF r.ok THEN Ok("unit") ELSE r]

\* lines 158-161
turn_off(self, token, reply) ==
    LET r == request("SetSwitchOff", token, Some(id(self)), reply)
    IN  [self |-> self, result |-> IF r.ok THEN Ok("unit") ELSE r]

\* lines 163-166
toggle(self, token, reply) ==
    LET r == request("SetSwitchToggle", token, Some(id(self)), reply)
    IN  [self |-> self, result |-> IF r.ok THEN Ok("unit") ELSE r]

(***************************************************************************)
(* The gateway, as far as the device layer observes it.                    *)
(***************************************************************************)
SwitchCommands == {"SetSwitchOff", "SetSwitchOn", "SetSwitchToggle"}

\* what the gateway can do with one request: fail to answer, answer with a
\* status, or answer 200 with a body the client cannot read
CommandStatuses == {200, 403, 500}

Outcomes ==
    {[kind |-> "transport_error"]}
        \cup [kind : {"http"}, status : CommandStatuses, readable : {TRUE}]
        \cup {[kind |-> "http", status |-> 200, readable |-> FALSE]}

\* the switch state a command asks for
SwitchTarget(cmd, old) ==
    CASE cmd = "SetSwitchOn" -> TRUE
      [] cmd = "SetSwitchOff" -> FALSE
      [] cmd = "SetSwitchToggle" -> ~old

\* the records of the gateway after it served a request
GatewayAfter(gw, cmd, ain, outcome) ==
    IF outcome.kind = "http" /\ outcome.status = 200 /\ cmd \in SwitchCommands
    THEN [i \in 1..Len(gw) |->
            IF gw[i].identifier = ain.val /\ gw[i].switch.some
            THEN [gw[i] EXCEPT !.switch =
                      Some([state |-> SwitchTarget(cmd, gw[i].switch.val.state)])]
            ELSE gw[i]]
    ELSE gw

\* the statistics the gateway holds for a device
StatsOf(dev) ==
    (IF dev.temperature.some THEN <<"temperature">> ELSE <<>>)
        \o (IF dev.powermeter.some THEN <<"voltage", "power", "energy">> ELSE <<>>)

\* the body of a 200 response
GatewayBody(gw, cmd, ain) ==
    IF cmd = "GetDeviceListInfos" THEN [kind |-> "device_list", devices |-> gw]
    ELSE IF \A i \in 1..Len(gw) : gw[i].identifier # ain.val THEN Malformed
    ELSE LET dev == gw[CHOOSE i \in 1..Len(gw) : gw[i].identifier = ain.val]
         IN  IF cmd = "GetBasicDeviceStats"
             THEN [kind |-> "device_stats", stats |-> StatsOf(dev)]
             ELSE [kind |-> "text",
                   text |-> IF ~dev.switch.some THEN "inval"
                            ELSE IF dev.switch.val.state THEN "1" ELSE "0"]

\* the reply to a request; gw is the gateway after it served the request
GatewayReply(gw, cmd, ain, outcome) ==
    IF outcome.kind = "transport_error" THEN Transport
    ELSE [kind |-> "http", status |-> outcome.status,
          body |-> IF ~outcome.readable THEN Unreadable
                   ELSE IF outcome.status # 200 THEN Malformed
                   ELSE GatewayBody(gw, cmd, ain)]

(***************************************************************************)
(* The raw device records of the model: every combination of sub-records   *)
(* for a gateway with one device, and every list of up to MaxDevices       *)
(* devices out of four (two of them with the same identifier).             *)
(***************************************************************************)
ProductNames == {"FRITZ!DECT 200", "FRITZ!DECT 301", "HAN-FUN"}

Meter == [energy |-> 75123, power |-> 12340, voltage |-> 230512]

SwitchStates == {None, Some([state |-> FALSE]), Some([state |-> TRUE])}

Alerts ==
    {None,
     Some([state |-> FALSE, lastalertchgtimestamp |-> 1650000000]),
     Some([state |-> TRUE, lastalertchgtimestamp |-> 1700000000])}

SingleDevices ==
    [identifier : {"11657 0240192"},
     productname : ProductNames,
     name : {"Desk lamp"},
     switch : SwitchStates,
     powermeter : {None, Some(Meter)},
     temperature : {None, Some([celsius |-> "225"]), Some([celsius |-> ""])},
     alert : Alerts]

HouseDevices ==
    {[identifier |-> "11657 0240192", productname |-> "FRITZ!DECT 200",
      name |-> "Desk lamp", switch |-> Some([state |-> FALSE]),
      powermeter |-> Some(Meter), temperature |-> Some([celsius |-> "225"]),
      alert |-> Some([state |-> FALSE, lastalertchgtimestamp |-> 1650000000])],
     [identifier |-> "08761 0000434", productname |-> "FRITZ!DECT 210",
      name |-> "Heater", switch |-> Some([state |-> TRUE]),
      powermeter |-> Some(Meter), temperature |-> Some([celsius |-> "-15"]),
      alert |-> Some([state |-> TRUE, lastalertchgtimestamp |-> 1700000000])],
     [identifier |-> "09995 0335100", productname |-> "FRITZ!DECT 301",
      name |-> "Radiator", switch |-> None,
      powermeter |-> None, temperature |-> Some([celsius |-> "210"]),
      alert |-> Some([state |-> TRUE, lastalertchgtimestamp |-> 1700000000])],
     [identifier |-> "11657 0240192", productname |-> "FRITZ!DECT 200",
      name |-> "Spare plug", switch |-> Some([state |-> TRUE]),
      powermeter |-> None, temperature |-> None, alert |-> None]}

GatewayLists ==
    {<<d>> : d \in SingleDevices} \cup SeqsUpTo(HouseDevices, MaxDevices)

(***************************************************************************)
(* The calls of the device layer.                                          *)
(***************************************************************************)
InitDV ==
    /\ dv_token = Token("9c3a41f07b2d6e58", Chars("fritz.box"))
    /\ dv_gw \in GatewayLists
    /\ dv_listed = <<>>
    /\ dv_devices = <<>>
    /\ dv_last = None

\* the record of a call: the request target, kind and status of the reply,
\* what request returned (the body, or an error) and what the operation
\* returned
Call(op, index, cmd, ain, reply, result) ==
    Some([op |-> op, index |-> index,
          url |-> CommandUrl(cmd, dv_token, ain),
          reply |-> IF reply.kind = "http"
                    THEN [kind |-> "http", status |-> reply.status]
                    ELSE [kind |-> reply.kind],
          dispatched |-> request(cmd, dv_token, ain, reply),
          result |-> result])

\* AVMDevice::list(&token)
List(outcome) ==
    LET reply == GatewayReply(dv_gw, "GetDeviceListInfos", None, outcome)
        r     == list(dv_token, reply)
    IN  /\ dv_devices' = IF r.ok THEN r.val ELSE dv_devices
        /\ dv_listed' = IF r.ok THEN reply.body.devices ELSE dv_listed
        /\ dv_last' = Call("list", 0, "GetDeviceListInfos", None, reply,
                           IF r.ok THEN Ok("devices") ELSE r)
        /\ UNCHANGED <<dv_token, dv_gw, rr_vars, gt_vars>>

\* dv_devices[i].fetch_device_stats(&token)
FetchDeviceStats(i, outcome) ==
    LET ain   == Some(id(dv_devices[i]))
        reply == GatewayReply(dv_gw, "GetBasicDeviceStats", ain, outcome)
    IN  /\ dv_last' = Call("fetch_device_stats", i, "GetBasicDeviceStats", ain,
                           reply, fetch_device_stats(dv_devices[i], dv_token, reply))
        /\ UNCHANGED <<dv_token, dv_gw, dv_listed, dv_devices, rr_vars, gt_vars>>

\* dv_devices[i].turn_on(&token)
TurnOn(i, outcome) ==
    LET ain   == Some(id(dv_devices[i]))
        gw    == GatewayAfter(dv_gw, "SetSwitchOn", ain, outcome)
        reply == GatewayReply(gw, "SetSwitchOn", ain, outcome)
        r     == turn_on(dv_devices[i], dv_token, reply)
    IN  /\ dv_gw' = gw
        /\ dv_devices' = [dv_devices EXCEPT ![i] = r.self]
        /\ dv_last' = Call("turn_on", i, "SetSwitchOn", ain, reply, r.result)
        /\ UNCHANGED <<dv_token, dv_listed, rr_vars, gt_vars>>

\* dv_devices[i].turn_off(&token)
TurnOff(i, outcome) ==
    LET ain   == Some(id(dv_devices[i]))
        gw    == GatewayAfter(dv_gw, "SetSwitchOff", ain, outcome)
        reply == GatewayReply(gw, "SetSwitchOff", ain, outcome)
        r     == turn_off(dv_devices[i], dv_token, reply)
    IN  /\ dv_gw' = gw
        /\ dv_devices' = [dv_devices EXCEPT ![i] = r.self]
        /\ dv_last' = Call("turn_off", i, "SetSwitchOff", ain, reply, r.result)
        /\ UNCHANGED <<dv_token, dv_listed, rr_vars, gt_vars>>

\* dv_devices[i].toggle(&token)
Toggle(i, outcome) ==
    LET ain   == Some(id(dv_devices[i]))
        gw    == GatewayAfter(dv_gw, "SetSwitchToggle", ain, outcome)
        reply == GatewayReply(gw, "SetSwitchToggle", ain, outcome)
        r     == toggle(dv_devices[i], dv_token, reply)
    IN  /\ dv_gw' = gw
        /\ dv_devices' = [dv_devices EXCEPT ![i] = r.self]
        /\ dv_last' = Call("toggle", i, "SetSwitchToggle", ain, reply, r.result)
        /\ UNCHANGED <<dv_token, dv_listed, rr_vars, gt_vars>>

(***************************************************************************)
(* Specifications.  Each runs one component; the variables of the others   *)
(* stay as they are before any call.                                       *)
(***************************************************************************)
IdleRR ==
    /\ rr_pc = "idle"
    /\ rr_pw1 = <<>>
    /\ rr_pw2 = <<>>
    /\ rr_ch = <<>>
    /\ rr_out1 = <<>>
    /\ rr_out2 = <<>>

IdleDV ==
    /\ dv_token = Token("", <<>>)
    /\ dv_gw = <<>>
    /\ dv_listed = <<>>
    /\ dv_devices = <<>>
    /\ dv_last = None

InitSolver == InitRR /\ InitGT /\ IdleDV

NextSolver == Solve

SpecSolver == InitSolver /\ [][NextSolver]_vars

InitLogin == IdleRR /\ InitGT /\ IdleDV

NextLogin ==
    \/ \E host \in Hosts, user \in Users, password \in LoginPasswords :
           GetTokenCall(host, user, password)
    \/ \E reply \in LoginReplies : GetTokenFirstReply(reply)
    \/ \E reply \in LoginReplies : GetTokenSecondReply(reply)

SpecLogin == InitLogin /\ [][NextLogin]_vars

InitDevices == IdleRR /\ InitGT /\ InitDV

NextDevices ==
    \/ \E outcome \in Outcomes : List(outcome)
    \/ \E i \in 1..Len(dv_devices), outcome \in Outcomes :
           FetchDeviceStats(i, outcome)
    \/ \E i \in 1..Len(dv_devices), outcome \in Outcomes : TurnOn(i, outcome)
    \/ \E i \in 1..Len(dv_devices), outcome \in Outcomes : TurnOff(i, outcome)
    \/ \E i \in 1..Len(dv_devices), outcome \in Outcomes : Toggle(i, outcome)

SpecDevices == InitDevices /\ [][NextDevices]_vars

(***************************************************************************)
(* The unit test of api.rs 139-142.                                        *)
(***************************************************************************)
test_request_response ==
    request_response(TestPassword, <<102, 111, 111>>)
        = <<102, 111, 111, 45,
            52, 52, 50, 101, 49, 50, 98, 98, 99, 101, 97, 98, 100, 51, 53, 99,
            54, 54, 57, 54, 52, 99, 57, 49, 51, 97, 51, 49, 54, 52, 53, 49>>

(***************************************************************************)
(* Properties of get_token, under SpecLogin.                               *)
(***************************************************************************)
FirstInfo == SessionInfoOf(gt_replies[1])

SecondInfo == SessionInfoOf(gt_replies[2])

\* C1: when the session id parsed from the first response is not the
\* sentinel, get_token has returned a Session with exactly that session id
\* and the given host, and the only request of the run is the first one: no
\* request carries the user name or a response token.
C1_ExistingSessionReturned ==
    (/\ Len(gt_replies) >= 1
     /\ FirstInfo.ok
     /\ FirstInfo.val.sid # DEFAULT_SID)
        => /\ gt_pc = "returned"
           /\ gt_result = Some(Ok([sid |-> gt_replies[1].body.sid, host |-> gt_host]))
           /\ Len(gt_replies) = 1
           /\ gt_sent = <<Chars("http://") \o gt_host \o Chars("/login_sid.lua")>>

C1_Witness ==
    /\ gt_pc = "returned"
    /\ Len(gt_replies) = 1
    /\ gt_replies[1].kind = "http"
    /\ gt_replies[1].body.kind = "session_info"
    /\ gt_replies[1].body.sid = "9c3a41f07b2d6e58"
    /\ gt_result = Some(Ok([sid |-> "9c3a41f07b2d6e58", host |-> Chars("fritz.box")]))
    /\ gt_sent = <<Chars("http://fritz.box/login_sid.lua")>>

\* C2: when the first response carries the sentinel session id and the
\* second response still carries it, get_token fails with LoginError and
\* returns no Session.
C2_LoginErrorOnSentinel ==
    (/\ Len(gt_replies) = 2
     /\ FirstInfo.ok
     /\ FirstInfo.val.sid = DEFAULT_SID
     /\ SecondInfo.ok
     /\ SecondInfo.val.sid = DEFAULT_SID)
        => /\ gt_pc = "returned"
           /\ gt_result = Some([ok |-> FALSE, err |-> "LoginError"])

C2_Witness ==
    /\ gt_pc = "returned"
    /\ Len(gt_replies) = 2
    /\ gt_replies[1].kind = "http"
    /\ gt_replies[1].body.kind = "session_info"
    /\ gt_replies[1].body.sid = DEFAULT_SID
    /\ gt_replies[2].kind = "http"
    /\ gt_replies[2].body.kind = "session_info"
    /\ gt_replies[2].body.sid = DEFAULT_SID
    /\ gt_result = Some([ok |-> FALSE, err |-> "LoginError"])
    /\ Len(gt_sent) = 2
    /\ gt_user = Chars("a&b")
    /\ gt_sent[2] = Chars("http://") \o gt_host
                        \o Chars("/login_sid.lua?username=a&b&response=")
                        \o request_response(gt_password, gt_replies[1].body.challenge)

\* C3: a Session that get_token returns never carries the sentinel; its
\* session id is the one in the last response of the run (the first on the
\* short-circuit path, the second after a first response with the
\* sentinel), every request of the run was answered, and its host is the
\* host argument.
C3_SessionIsServerConfirmed ==
    (gt_result.some /\ gt_result.val.ok)
        => LET token == gt_result.val.val
               n     == Len(gt_replies)
               last  == gt_replies[n]
           IN  /\ gt_pc = "returned"
               /\ n \in {1, 2}
               /\ Len(gt_sent) = n
               /\ token.sid # DEFAULT_SID
               /\ last.kind = "http"
               /\ last.body.kind = "session_info"
               /\ token.sid = last.body.sid
               /\ token.host = gt_host
               /\ n = 2 => /\ gt_replies[1].kind = "http"
                           /\ gt_replies[1].body.kind = "session_info"
                           /\ gt_replies[1].body.sid = DEFAULT_SID

C3_Witness ==
    /\ gt_pc = "returned"
    /\ Len(gt_replies) = 2
    /\ gt_replies[1].kind = "http"
    /\ gt_replies[1].body.kind = "session_info"
    /\ gt_replies[1].body.sid = DEFAULT_SID
    /\ gt_replies[2].kind = "http"
    /\ gt_replies[2].body.kind = "session_info"
    /\ gt_replies[2].body.sid = "9c3a41f07b2d6e58"
    /\ gt_host = Chars("192.168.178.1")
    /\ gt_result = Some(Ok([sid |-> "9c3a41f07b2d6e58", host |-> Chars("192.168.178.1")]))

(***************************************************************************)
(* Properties of the dispatcher and the device layer, under SpecDevices.   *)
(***************************************************************************)
SuccessStatus(reply) ==
    reply.kind = "http" /\ reply.status >= 200 /\ reply.status <= 299

\* C4: request, and with it list, fetch_device_stats, turn_on, turn_off and
\* toggle, fails whenever the exchange fails at transport level or the
\* gateway answers with a non-success status; request returns a body only
\* when the status is a success status.
C4_DispatchFailsOnNonSuccess ==
    dv_last.some
        => /\ ~SuccessStatus(dv_last.val.reply)
                => (~dv_last.val.dispatched.ok /\ ~dv_last.val.result.ok)
           /\ dv_last.val.dispatched.ok => SuccessStatus(dv_last.val.reply)

AllSubRecords(raw) ==
    /\ raw.switch.some
    /\ raw.powermeter.some
    /\ raw.temperature.some
    /\ raw.alert.some

\* C5: a listed record is a FritzDect2XX exactly when its product name
\* starts with "FRITZ!DECT 2" and its switch, power-meter, temperature and
\* alert sub-records are all present; otherwise it is Other.
C5_PlugNeedsAllFourSubRecords ==
    \A i \in 1..Len(dv_devices) :
        /\ dv_devices[i].variant \in {"FritzDect2XX", "Other"}
        /\ dv_devices[i].variant = "FritzDect2XX"
               <=> (/\ starts_with(dv_listed[i].productname, "FRITZ!DECT 2")
                    /\ AllSubRecords(dv_listed[i]))

\* C6: for every listed device of either variant, is_alert and
\* last_alert_change_epoch are the state and the timestamp of the record's
\* alert sub-record when it has one, and false and 0 when it has none.
C6_AlertFromSubRecord ==
    \A i \in 1..Len(dv_devices) :
        IF dv_listed[i].alert.some
        THEN /\ is_alert(dv_devices[i]) = dv_listed[i].alert.val.state
             /\ last_alert_change_epoch(dv_devices[i])
                    = dv_listed[i].alert.val.lastalertchgtimestamp
        ELSE /\ is_alert(dv_devices[i]) = FALSE
             /\ last_alert_change_epoch(dv_devices[i]) = 0

\* C7: a successful list returns as many devices as the gateway sent
\* records, and the i-th device is built from the i-th record alone, with
\* that record's identifier, name and product name.
C7_ListPreservesRecords ==
    /\ Len(dv_devices) = Len(dv_listed)
    /\ \A i \in 1..Len(dv_listed) :
           /\ dv_devices[i] = ClassifyDevice(dv_listed[i])
           /\ id(dv_devices[i]) = dv_listed[i].identifier
           /\ name(dv_devices[i]) = dv_listed[i].name
           /\ productname(dv_devices[i]) = dv_listed[i].productname
    /\ (dv_last.some /\ dv_last.val.op = "list" /\ dv_last.val.result.ok)
           => /\ dv_last.val.dispatched.ok
              /\ dv_last.val.dispatched.val.kind = "device_list"
              /\ dv_listed = dv_last.val.dispatched.val.devices
              /\ Len(dv_devices) = Len(dv_last.val.dispatched.val.devices)

C7_Witness ==
    /\ dv_last.some
    /\ dv_last.val.op = "list"
    /\ dv_last.val.result.ok
    /\ Len(dv_last.val.dispatched.val.devices) = 2
    /\ Len(dv_devices) = 2
    /\ dv_devices[1].variant = "Other"
    /\ dv_devices[2].variant = "FritzDect2XX"
    /\ id(dv_devices[1]) = "09995 0335100"
    /\ id(dv_devices[2]) = "08761 0000434"

Observed(d) ==
    <<is_on(d), state(d), id(d), name(d), productname(d)>>

\* C8: a step that is not a list (turn_on, turn_off, toggle, or
\* fetch_device_stats), whether it succeeds or fails and whatever the
\* gateway does with its switches, leaves is_on, state, id, name and
\* productname of every device the caller holds as they were.
C8_SwitchCallsLeaveDevicesStale ==
    [][(dv_last'.some /\ dv_last'.val.op # "list")
          => /\ Len(dv_devices') = Len(dv_devices)
             /\ \A i \in 1..Len(dv_devices) :
                    Observed(dv_devices'[i]) = Observed(dv_devices[i])]_vars

C8_Witness ==
    /\ dv_last.some
    /\ dv_last.val.op = "turn_on"
    /\ dv_last.val.result.ok
    /\ dv_last.val.reply.status = 200
    /\ LET i == dv_last.val.index
       IN  /\ dv_devices[i].variant = "FritzDect2XX"
           /\ dv_listed[i].switch = Some([state |-> FALSE])
           /\ dv_gw[i].switch = Some([state |-> TRUE])
           /\ ~is_on(dv_devices[i])
           /\ state(dv_devices[i]) = "off"

\* C10: a listed device is on exactly when it is a FritzDect2XX and the
\* state of the record's alert sub-record is true, state() says the same,
\* and the switch sub-record does not enter: an Other is never on.
C10_OnStateIsAlertState ==
    \A i \in 1..Len(dv_devices) :
        LET alerting == dv_listed[i].alert.some /\ dv_listed[i].alert.val.state
            plug     == dv_devices[i].variant = "FritzDect2XX"
        IN  /\ is_on(dv_devices[i]) = (plug /\ alerting)
            /\ state(dv_devices[i])
                   = (IF ~plug THEN "" ELSE IF alerting THEN "on" ELSE "off")
            /\ dv_devices[i].variant = "Other" => ~is_on(dv_devices[i])

C10_Witness ==
    \E i \in 1..Len(dv_devices) :
        /\ dv_devices[i].variant = "FritzDect2XX"
        /\ is_on(dv_devices[i])
        /\ state(dv_devices[i]) = "on"
        /\ dv_listed[i].switch = Some([state |-> FALSE])
        /\ dv_listed[i].alert.val.state

(***************************************************************************)
(* Properties of request_response, under SpecSolver.                       *)
(***************************************************************************)
\* the password with every character outside 0x00-0x7F replaced by '.'
Sanitized(p) == [i \in 1..Len(p) |-> IF p[i] \in 0..127 THEN p[i] ELSE 46]

StartsWithChallenge(out, c) ==
    /\ Len(out) > Len(c)
    /\ SubSeq(out, 1, Len(c) + 1) = c \o <<45>>

\* C9: two passwords that are equal once sanitized give the same response
\* under the same challenge, and a response starts with the challenge
\* followed by '-'.
C9_OnlySanitizedPasswordMatters ==
    rr_pc = "done"
        => /\ Sanitized(rr_pw1) = Sanitized(rr_pw2) => rr_out1 = rr_out2
           /\ StartsWithChallenge(rr_out1, rr_ch)
           /\ StartsWithChallenge(rr_out2, rr_ch)

C9_Witness ==
    /\ rr_pc = "done"
    /\ rr_pw1 = <<196>>
    /\ rr_pw2 = <<46>>
    /\ rr_ch = <<120>>
    /\ rr_out1 = rr_out2
    /\ Len(rr_out1) = 34

====
